---- MODULE Spec2Model ----
(***************************************************************************)
(* Model of PhiFlow's dynamic backend dispatcher                           *)
(* (phi/backend/dynamic_backend.py) and of the Field flag algebra          *)
(* (phi/field/field.py).                                                   *)
(***************************************************************************)
EXTENDS Integers, Sequences, FiniteSets, Bags, TLC

VARIABLES backends, call, field, other, fop

vars == <<backends, call, field, other, fop>>

(***************************************************************************)
(* Bounds                                                                  *)
(***************************************************************************)
\* longest list handed to an operation that takes a list of operands
MaxListLen == 2

\* most flags handed to the Field constructor
MaxFlags == 2

(***************************************************************************)
(* Python values seen by the dispatcher: an operand of some representation *)
(* (kind), or a tuple/list of operands.                                    *)
(***************************************************************************)
Kinds == {"X", "Y", "Z"}

Atom(k) == [isSeq |-> FALSE, kind |-> k, items |-> <<>>]

Tuple(s) == [isSeq |-> TRUE, kind |-> "seq", items |-> s]

Atoms == {Atom(k) : k \in Kinds}

SeqsUpTo(S, n) == UNION {[1..m -> S] : m \in 0..n}

Lists == {Tuple(s) : s \in SeqsUpTo(Atoms, MaxListLen)}

NoValue == [isSeq |-> FALSE, kind |-> "none", items |-> <<>>]

(***************************************************************************)
(* Backends: a name and an applicability test on an operand sequence.      *)
(* "all" backends accept a sequence when every operand has an accepted     *)
(* kind, "any" backends when some operand has.                             *)
(***************************************************************************)
BackendPool ==
    { [id |-> 1, name |-> "B1", accepts |-> {"X"}, mode |-> "all"],
      [id |-> 2, name |-> "B2", accepts |-> {"X", "Y"}, mode |-> "all"],
      [id |-> 3, name |-> "B1", accepts |-> {"Y"}, mode |-> "all"],
      [id |-> 4, name |-> "B3", accepts |-> {"Z"}, mode |-> "any"] }

BackendApplicable(b, values) ==
    IF b.mode = "all"
    THEN \A i \in 1..Len(values) : values[i].kind \in b.accepts
    ELSE \E i \in 1..Len(values) : values[i].kind \in b.accepts

(***************************************************************************)
(* DynamicBackend                                                          *)
(***************************************************************************)
\* values = [values] unless it is a tuple or a list
NormalizeValues(values) == IF values.isSeq THEN values.items ELSE <<values>>

RECURSIVE ScanBackends(_, _, _)
ScanBackends(bs, values, i) ==
    IF i > Len(bs) THEN 0
    ELSE IF BackendApplicable(bs[i], values) THEN i
    ELSE ScanBackends(bs, values, i + 1)

\* variant of choose_backend: the latest-registered applicable backend wins
choose_backend_last(bs, values) ==
    LET S == {i \in 1..Len(bs) :
                BackendApplicable(bs[i], NormalizeValues(values))}
    IN  IF S = {} THEN 0 ELSE CHOOSE i \in S : \A j \in S : j <= i

\* index of the backend returned, 0 when NoBackendFound is raised
choose_backend(bs, values) == ScanBackends(bs, NormalizeValues(values), 1)

RECURSIVE NameExists(_, _, _)
NameExists(bs, name, i) ==
    IF i > Len(bs) THEN FALSE
    ELSE IF bs[i].name = name THEN TRUE
    ELSE NameExists(bs, name, i + 1)

\* variant of add_backend: a new backend takes the highest priority
add_backend_front(bs, backend) ==
    IF NameExists(bs, backend.name, 1)
    THEN [backends |-> bs, ret |-> FALSE]
    ELSE [backends |-> <<backend>> \o bs, ret |-> TRUE]

\* variant of add_backend: the name is not compared with the registered ones
add_backend_unchecked(bs, backend) ==
    [backends |-> Append(bs, backend), ret |-> TRUE]

\* the registry after add_backend(backend) and the value returned
add_backend(bs, backend) ==
    IF NameExists(bs, backend.name, 1)
    THEN [backends |-> bs, ret |-> FALSE]
    ELSE [backends |-> Append(bs, backend), ret |-> TRUE]

(***************************************************************************)
(* The forwarded operations, grouped by the expression each hands to       *)
(* choose_backend.  args holds the operand parameters in declaration       *)
(* order; parameters that are never operands (axis, mode, name, ...) are   *)
(* left out.                                                               *)
(***************************************************************************)
\* op(x, ...): choose_backend(x)
FirstArgOps ==
    {"as_tensor", "random_uniform", "tile", "pad", "reshape", "sum", "prod",
     "mean", "zeros_like", "ones_like", "abs", "sign", "round", "ceil",
     "floor", "max", "min", "sqrt", "exp", "expand_dims", "shape",
     "to_float", "staticshape", "to_int", "to_complex", "unstack", "std",
     "isfinite", "any", "all", "fft", "ifft", "imag", "real", "cast", "sin",
     "cos", "dtype"}

\* op(values, ...) with a list of operands: choose_backend(values)
ListArgOps == {"stack", "concat", "py_func", "while_loop"}

\* op(a, b, ...): choose_backend([a, b])
PairOps ==
    {"equal", "divide_no_nan", "resample", "dot", "matmul", "maximum",
     "minimum", "conv", "boolean_mask", "add", "sub", "mul", "div", "pow"}

\* op(a, b, c): choose_backend((a, b, c))
TripleOps == {"where", "range"}

\* op(values, indices): choose_backend([values])
GatherOps == {"gather", "gather_nd"}

ForwardedOps ==
    FirstArgOps \cup ListArgOps \cup PairOps \cup TripleOps \cup GatherOps
        \cup {"scatter", "sparse_tensor", "with_custom_gradient"}

DispatchOps == ForwardedOps \cup {"is_tensor"}

Arity(op) ==
    IF op \in PairOps \cup GatherOps THEN 2
    ELSE IF op \in TripleOps \cup {"scatter", "sparse_tensor"} THEN 3
    ELSE 1

\* the argument tuples an operation is called with
ArgsOf(op) ==
    IF op \in ListArgOps \cup {"with_custom_gradient"}
    THEN {<<l>> : l \in Lists}
    ELSE [1..Arity(op) -> Atoms]

\* with_custom_gradient indexes inputs[0]
KeyDefined(op, args) ==
    op = "with_custom_gradient" => Len(args[1].items) > 0

\* the expression handed to choose_backend
DispatchKey(op, args) ==
    IF op \in PairOps THEN Tuple(<<args[1], args[2]>>)
    ELSE IF op \in TripleOps THEN Tuple(<<args[1], args[2], args[3]>>)
    ELSE IF op \in GatherOps THEN Tuple(<<args[1]>>)
    ELSE IF op = "sparse_tensor" THEN Tuple(<<args[1], args[2]>>)
    ELSE IF op = "with_custom_gradient" THEN args[1].items[1]
    ELSE args[1]

\* outcome of self.choose_backend(key).op(*args)
Forward(bs, op, args) ==
    IF ~KeyDefined(op, args)
    THEN [outcome |-> "IndexError", sel |-> 0, key |-> NoValue]
    ELSE LET key == DispatchKey(op, args)
             i == choose_backend(bs, key)
         IN  IF i = 0
             THEN [outcome |-> "NoBackendFound", sel |-> 0, key |-> key]
             ELSE [outcome |-> "ok", sel |-> i, key |-> key]

\* variant of is_tensor: NoBackendFound is not caught
is_tensor_uncaught(bs, x, r) ==
    LET i == choose_backend(bs, x)
    IN  IF i = 0
        THEN [outcome |-> "NoBackendFound", sel |-> 0, key |-> x,
              ret |-> "none"]
        ELSE [outcome |-> "ok", sel |-> i, key |-> x,
              ret |-> IF r THEN "true" ELSE "false"]

\* is_tensor(x); r is what the chosen backend's is_tensor answers
is_tensor(bs, x, r) ==
    LET i == choose_backend(bs, x)
    IN  IF i = 0
        THEN [outcome |-> "ok", sel |-> 0, key |-> x, ret |-> "false"]
        ELSE [outcome |-> "ok", sel |-> i, key |-> x,
              ret |-> IF r THEN "true" ELSE "false"]

NoCall ==
    [op |-> "none", args |-> <<>>, key |-> NoValue, outcome |-> "none",
     sel |-> 0, ret |-> "none", added |-> 0]

\* a caller is between two calls when call = NoCall
AddBackend(b) ==
    LET r == add_backend(backends, b)
    IN  /\ call = NoCall
        /\ backends' = r.backends
        /\ call' = [op |-> "add_backend", args |-> <<>>, key |-> NoValue,
                    outcome |-> "ok", sel |-> 0,
                    ret |-> IF r.ret THEN "true" ELSE "false",
                    added |-> b.id]
        /\ UNCHANGED <<field, other, fop>>

Dispatch(op, args) ==
    LET r == Forward(backends, op, args)
    IN  /\ call = NoCall
        /\ call' = [op |-> op, args |-> args, key |-> r.key,
                    outcome |-> r.outcome, sel |-> r.sel,
                    ret |-> IF r.outcome = "ok" THEN "value" ELSE "none",
                    added |-> 0]
        /\ UNCHANGED <<backends, field, other, fop>>

IsTensor(x, r) ==
    LET t == is_tensor(backends, x, r)
    IN  /\ call = NoCall
        /\ call' = [op |-> "is_tensor", args |-> <<x>>, key |-> t.key,
                    outcome |-> t.outcome, sel |-> t.sel, ret |-> t.ret,
                    added |-> 0]
        /\ UNCHANGED <<backends, field, other, fop>>

\* the caller has taken the result of the call
ReturnCall ==
    /\ call # NoCall
    /\ call' = NoCall
    /\ UNCHANGED <<backends, field, other, fop>>

(***************************************************************************)
(* Flags.  A flag declares whether it is bound to the data and/or to the   *)
(* structure, the propagators under which it survives, and the             *)
(* (rank, component_count) it is applicable to.                            *)
(***************************************************************************)
RESAMPLE == "resample"
CHILDREN == "children"
LINEAR_OPERATIONS == "linear"
ALL_OPERATIONS == "all"

\* applies: "vector" when component_count = rank, "scalar" when
\* component_count = 1, "always" otherwise
FlagPool ==
    { [id |-> 1, is_data_bound |-> TRUE, is_structure_bound |-> FALSE,
       propagators |-> {RESAMPLE, LINEAR_OPERATIONS}, applies |-> "vector"],
      [id |-> 2, is_data_bound |-> FALSE, is_structure_bound |-> TRUE,
       propagators |-> {RESAMPLE, CHILDREN}, applies |-> "always"],
      [id |-> 3, is_data_bound |-> TRUE, is_structure_bound |-> TRUE,
       propagators |-> {RESAMPLE, CHILDREN, LINEAR_OPERATIONS, ALL_OPERATIONS},
       applies |-> "scalar"],
      [id |-> 4, is_data_bound |-> FALSE, is_structure_bound |-> FALSE,
       propagators |-> {RESAMPLE, CHILDREN, LINEAR_OPERATIONS, ALL_OPERATIONS},
       applies |-> "always"] }

flag_is_applicable(flag, rank, component_count) ==
    IF flag.applies = "vector" THEN component_count = rank
    ELSE IF flag.applies = "scalar" THEN component_count = 1
    ELSE TRUE

propagates(flag, propagator) == propagator \in flag.propagators

(***************************************************************************)
(* A tuple of flags is kept as the bag of its elements: the number of      *)
(* times each flag occurs, without the order, which tuple(set(...)) leaves *)
(* to the iteration order of a set.                                        *)
(***************************************************************************)
FlagTuples(n) ==
    {b \in UNION {[S -> 1..n] : S \in SUBSET FlagPool} : BagCardinality(b) <= n}

\* [flag for flag in flags if flag in keep]
FilterFlags(flags, keep) ==
    [fl \in {x \in BagToSet(flags) : x \in keep} |-> flags[fl]]

(***************************************************************************)
(* Fields.  rank, component_count and points are what the concrete Field   *)
(* reports; flags is None (flagsNone) or a tuple of flags.                 *)
(***************************************************************************)
Ranks == {1, 2}

ComponentCounts == {1, 2, 3}

PointKinds == {"points", "none", "staggered"}

NoField ==
    [rank |-> 0, component_count |-> 0, points |-> "none", flagsNone |-> TRUE,
     flags |-> EmptyBag]

\* variant of validate_flags: inapplicable flags are dropped
validate_flags_dropping(f) ==
    IF f.flagsNone THEN {f}
    ELSE {[f EXCEPT !.flags =
              SetToBag({fl \in BagToSet(f.flags) :
                  flag_is_applicable(fl, f.rank, f.component_count)})]}

\* Field.__validate_flags__: the fields the normalization can leave behind,
\* none when it raises ValueError
validate_flags(f) ==
    IF f.flagsNone THEN {f}
    ELSE IF \E fl \in BagToSet(f.flags) :
                ~flag_is_applicable(fl, f.rank, f.component_count)
    THEN {}
    ELSE {[f EXCEPT !.flags = SetToBag(BagToSet(f.flags))]}

\* Field.has_points
has_points(f) == f.points # "none"

\* Field.compatible: same sample points; a field without sample points
\* combines with any field
compatible(a, b) ==
    \/ a.points = "none"
    \/ b.points = "none"
    \/ (a.rank = b.rank /\ a.points = b.points)

\* variant of propagate_flags_resample: the flags of the structure are
\* tested for is_data_bound as well
propagate_flags_resample_data(data_field, structure_flags, resulting_rank) ==
    FilterFlags(data_field.flags,
              {x \in FlagPool :
                      /\ x.is_data_bound
                      /\ propagates(x, RESAMPLE)
                      /\ flag_is_applicable(x, resulting_rank,
                                            data_field.component_count)})
    (+)
    FilterFlags(structure_flags,
              {x \in FlagPool :
                      /\ x.is_data_bound
                      /\ propagates(x, RESAMPLE)
                      /\ flag_is_applicable(x, resulting_rank,
                                            data_field.component_count)})

propagate_flags_resample(data_field, structure_flags, resulting_rank) ==
    FilterFlags(data_field.flags,
              {x \in FlagPool :
                      /\ x.is_data_bound
                      /\ propagates(x, RESAMPLE)
                      /\ flag_is_applicable(x, resulting_rank,
                                            data_field.component_count)})
    (+)
    FilterFlags(structure_flags,
              {x \in FlagPool :
                      /\ x.is_structure_bound
                      /\ propagates(x, RESAMPLE)
                      /\ flag_is_applicable(x, resulting_rank,
                                            data_field.component_count)})

propagate_flags_children(flags, child_rank, child_component_count) ==
    FilterFlags(flags,
              {x \in FlagPool :
                      /\ propagates(x, CHILDREN)
                      /\ flag_is_applicable(x, child_rank,
                                            child_component_count)})

\* variant of propagate_flags_operation: is_linear is ignored
propagate_flags_operation_all(flags, is_linear, result_rank, result_components) ==
    FilterFlags(flags,
                {x \in FlagPool :
                    /\ x.is_data_bound
                    /\ propagates(x, ALL_OPERATIONS)
                    /\ flag_is_applicable(x, result_rank, result_components)})

propagate_flags_operation(flags, is_linear, result_rank, result_components) ==
    LET propagator ==
            IF is_linear THEN LINEAR_OPERATIONS ELSE ALL_OPERATIONS
    IN  FilterFlags(flags,
                  {x \in FlagPool :
                          /\ x.is_data_bound
                          /\ propagates(x, propagator)
                          /\ flag_is_applicable(x, result_rank,
                                                result_components)})

\* copy-with-overrides followed by the validation hook: the copy of f that
\* holds the new data (component_count components) and flags, before the
\* hook normalizes the flags; ValueError when the hook raises
copied_with(f, component_count, flags) ==
    LET new == [f EXCEPT !.component_count = component_count,
                         !.flagsNone = FALSE, !.flags = flags]
    IN  IF validate_flags(new) = {}
        THEN [outcome |-> "ValueError", field |-> NoField]
        ELSE [outcome |-> "ok", field |-> new]

Failed(e) == [outcome |-> e, field |-> NoField]

\* Field.unstack: a field with one component returns itself, any other
\* field one single-component field per component, each with its own
\* sample points
unstack(f) ==
    IF f.component_count = 1 THEN <<f>>
    ELSE [i \in 1..f.component_count |->
            [rank |-> f.rank, component_count |-> 1,
             points |-> IF f.points = "staggered" THEN "points" ELSE f.points,
             flagsNone |-> f.flagsNone,
             flags |-> IF f.flagsNone THEN EmptyBag
                       ELSE propagate_flags_children(f.flags, f.rank, 1)]]

\* the first outcome in s that is not "ok", "ok" when there is none
RECURSIVE FirstFailure(_, _)
FirstFailure(s, i) ==
    IF i > Len(s) THEN "ok"
    ELSE IF s[i] # "ok" THEN s[i]
    ELSE FirstFailure(s, i + 1)

RECURSIVE at(_, _), broadcast_at(_, _)

\* Field.at
at(self, other_field) ==
    IF other_field.points = "none" THEN Failed("AttributeError")
    ELSE IF other_field.points = "staggered"
    THEN broadcast_at(self, other_field)
    ELSE IF self.flagsNone \/ other_field.flagsNone THEN Failed("TypeError")
    ELSE copied_with(other_field, self.component_count,
                     propagate_flags_resample(self, other_field.flags,
                                              other_field.rank))

broadcast_at(field1, field2) ==
    IF /\ field1.component_count # field2.component_count
       /\ field1.component_count # 1
    THEN Failed("IncompatibleFieldTypes")
    ELSE LET c2 == unstack(field2)
             new_components ==
                 IF field1.component_count = 1
                 THEN [i \in 1..Len(c2) |-> at(field1, c2[i]).outcome]
                 ELSE [i \in 1..Len(c2) |->
                          at(unstack(field1)[i], c2[i]).outcome]
             failure == FirstFailure(new_components, 1)
         IN  IF failure # "ok" THEN Failed(failure)
             ELSE IF field1.flagsNone \/ field2.flagsNone
             THEN Failed("TypeError")
             ELSE copied_with(field2, Len(new_components),
                              propagate_flags_resample(field1, field2.flags,
                                                       field2.rank))

\* Field.__dataop__; other_is_field tells a Field operand from a scalar,
\* asserting whether the interpreter executes assert statements
dataop(self, b, other_is_field, linear_if_scalar, asserting) ==
    IF other_is_field
    THEN IF asserting /\ ~compatible(self, b) THEN Failed("AssertionError")
         ELSE IF self.flagsNone \/ b.flagsNone THEN Failed("TypeError")
         ELSE LET flags ==
                      propagate_flags_operation(self.flags (+) b.flags,
                          FALSE, self.rank, self.component_count)
                  self_data ==
                      IF has_points(self) THEN "ok"
                      ELSE at(self, b).outcome
                  other_data ==
                      IF has_points(b) THEN "ok"
                      ELSE at(b, self).outcome
              IN  IF self_data # "ok" THEN Failed(self_data)
                  ELSE IF other_data # "ok" THEN Failed(other_data)
                  ELSE copied_with(self, self.component_count, flags)
    ELSE IF self.flagsNone THEN Failed("TypeError")
         ELSE copied_with(self, self.component_count,
                  propagate_flags_operation(self.flags, linear_if_scalar,
                      self.rank, self.component_count))

\* __mul__, __rmul__ pass True for linear_if_scalar, the others False
LinearOps == {"__mul__", "__rmul__"}

NonLinearOps == {"__sub__", "__rsub__", "__add__", "__radd__"}

DataOps == LinearOps \cup NonLinearOps

(***************************************************************************)
(* The Field constructor's inputs.  A field whose components are sampled   *)
(* at different locations has at least two components.                     *)
(***************************************************************************)
RawFields ==
    {f \in [rank : Ranks, component_count : ComponentCounts,
            points : PointKinds, flagsNone : BOOLEAN,
            flags : FlagTuples(MaxFlags)] :
        /\ f.points = "staggered" => f.component_count >= 2
        /\ f.flagsNone => f.flags = EmptyBag}

NoOp ==
    [op |-> "none", scalar |-> FALSE, outcome |-> "none", raw |-> NoField,
     result |-> NoField]

Done(op, scalar, outcome, raw, result) ==
    [op |-> op, scalar |-> scalar, outcome |-> outcome, raw |-> raw,
     result |-> result]

\* Field(name, bounds, data, flags) followed by the validation hook; the new
\* field becomes the left operand (to_self) or the right operand
Construct(to_self, raw) ==
    /\ fop = NoOp
    /\ IF to_self THEN field = NoField ELSE other = NoField
    /\ \/ /\ validate_flags(raw) = {}
          /\ fop' = Done("construct", FALSE, "ValueError", raw, NoField)
          /\ UNCHANGED <<field, other>>
       \/ \E v \in validate_flags(raw) :
            /\ fop' = Done("construct", FALSE, "ok", raw, v)
            /\ IF to_self
               THEN field' = v /\ other' = other
               ELSE other' = v /\ field' = field
    /\ UNCHANGED <<backends, call>>

\* the result of the last operation becomes an operand of the next
Adopt(to_self) ==
    /\ fop.outcome = "ok"
    /\ fop.op # "construct"
    /\ IF to_self
       THEN field' = fop.result /\ other' = other
       ELSE other' = fop.result /\ field' = field
    /\ fop' = NoOp
    /\ UNCHANGED <<backends, call>>

\* the result of the last operation, or its failure, is dropped
Return ==
    /\ fop # NoOp
    /\ fop' = NoOp
    /\ UNCHANGED <<backends, call, field, other>>

\* an operand is dropped
Release(to_self) ==
    /\ fop = NoOp
    /\ IF to_self
       THEN field # NoField /\ field' = NoField /\ other' = other
       ELSE other # NoField /\ other' = NoField /\ field' = field
    /\ UNCHANGED <<backends, call, fop>>

\* records the outcome r of an operation; on success the validation hook
\* has normalized the flags
Finish(op, scalar, r) ==
    /\ \/ /\ r.outcome # "ok"
          /\ fop' = Done(op, scalar, r.outcome, NoField, NoField)
       \/ /\ r.outcome = "ok"
          /\ \E v \in validate_flags(r.field) :
                fop' = Done(op, scalar, "ok", NoField, v)
    /\ UNCHANGED <<backends, call, field, other>>

HaveOperands == fop = NoOp /\ field # NoField /\ other # NoField

\* field.at(other)
At ==
    /\ HaveOperands
    /\ Finish("at", FALSE, at(field, other))

\* broadcast_at(field, other)
BroadcastAt ==
    /\ HaveOperands
    /\ Finish("broadcast_at", FALSE, broadcast_at(field, other))

\* field <op> other
FieldOp(op, asserting) ==
    /\ HaveOperands
    /\ Finish(op, FALSE, dataop(field, other, TRUE, op \in LinearOps, asserting))

\* field <op> scalar
ScalarOp(op) ==
    /\ fop = NoOp
    /\ field # NoField
    /\ Finish(op, TRUE, dataop(field, NoField, FALSE, op \in LinearOps, TRUE))

Init ==
    /\ backends = <<>>
    /\ call = NoCall
    /\ field = NoField
    /\ other = NoField
    /\ fop = NoOp

NextDispatch ==
    \/ \E b \in BackendPool : AddBackend(b)
    \/ \E op \in ForwardedOps : \E args \in ArgsOf(op) : Dispatch(op, args)
    \/ \E x \in Atoms : \E r \in BOOLEAN : IsTensor(x, r)
    \/ ReturnCall

NextField ==
    \/ \E to_self \in BOOLEAN : \E raw \in RawFields : Construct(to_self, raw)
    \/ \E to_self \in BOOLEAN : Adopt(to_self)
    \/ Return
    \/ \E to_self \in BOOLEAN : Release(to_self)
    \/ At
    \/ BroadcastAt
    \/ \E op \in DataOps : \E asserting \in BOOLEAN : FieldOp(op, asserting)
    \/ \E op \in DataOps : ScalarOp(op)

SpecDispatch == Init /\ [][NextDispatch]_vars

SpecField == Init /\ [][NextField]_vars

(***************************************************************************)
(* Properties of the dispatcher (checked under SpecDispatch)               *)
(***************************************************************************)
\* the registered backends that accept the operands of the last call
ApplicableTo(values) ==
    {i \in 1..Len(backends) : BackendApplicable(backends[i], values)}

IsLeast(i, S) == i \in S /\ \A j \in S : i <= j

CallValues == IF call.key.isSeq THEN call.key.items ELSE <<call.key>>

Keys == Atoms \cup {Tuple(s) : s \in SeqsUpTo(Atoms, 2)}

\* C1: a dispatched call goes to the earliest-registered backend that is
\* applicable to the operands it is keyed on, and registering further
\* backends never changes the backend selected for any operands.
C1_FirstApplicableWins ==
    /\ [](call.op \in DispatchOps /\ call.outcome # "IndexError"
            => \/ ApplicableTo(CallValues) = {} /\ call.sel = 0
               \/ IsLeast(call.sel, ApplicableTo(CallValues)))
    /\ [][\A key \in Keys :
            choose_backend(backends, key) # 0
                => choose_backend(backends', key) = choose_backend(backends, key)
         ]_vars

\* B1 (X only) was registered before B2 (X and Y), a third backend after
\* them, and an X operand was dispatched to B1
C1_Witness ==
    /\ Len(backends) = 3
    /\ backends[1].id = 1
    /\ backends[2].id = 2
    /\ call.op \in ForwardedOps
    /\ call.key = Atom("X")
    /\ call.sel = 1

\* C2: add_backend with a name that is already registered returns False and
\* leaves the registry as it was; otherwise it returns True, the registry is
\* one longer, the new backend is last and every earlier entry keeps its
\* position.
C2_AddBackendFrame ==
    [][call'.op = "add_backend" =>
        LET b == CHOOSE x \in BackendPool : x.id = call'.added
            collides == \E i \in 1..Len(backends) : backends[i].name = b.name
        IN  IF collides
            THEN call'.ret = "false" /\ backends' = backends
            ELSE /\ call'.ret = "true"
                 /\ Len(backends') = Len(backends) + 1
                 /\ backends'[Len(backends')] = b
                 /\ \A i \in 1..Len(backends) : backends'[i] = backends[i]
     ]_vars

\* a backend named like a registered one was rejected
C2_Witness ==
    /\ call.op = "add_backend"
    /\ call.ret = "false"
    /\ Len(backends) >= 2
    /\ \E i \in 1..Len(backends) :
          /\ backends[i].id # call.added
          /\ backends[i].name =
                (CHOOSE x \in BackendPool : x.id = call.added).name

\* C3: no two registry entries share a name.
C3_UniqueNames ==
    \A i, j \in 1..Len(backends) :
        backends[i].name = backends[j].name => i = j

\* every name is registered and a further add_backend was rejected
C3_Witness ==
    /\ Len(backends) = 3
    /\ call.op = "add_backend"
    /\ call.ret = "false"

\* C4: when no registered backend is applicable to the operands of a call,
\* the call raises NoBackendFound and reaches no backend, except is_tensor,
\* which returns False.
C4_NoBackendFound ==
    (/\ call.op \in DispatchOps
     /\ call.outcome # "IndexError"
     /\ \A i \in 1..Len(backends) : ~BackendApplicable(backends[i], CallValues))
    => IF call.op = "is_tensor"
       THEN call.outcome = "ok" /\ call.ret = "false" /\ call.sel = 0
       ELSE call.outcome = "NoBackendFound" /\ call.sel = 0

\* is_tensor was called on an operand no registered backend accepts
C4_Witness ==
    /\ call.op = "is_tensor"
    /\ Len(backends) >= 1
    /\ call.sel = 0
    /\ call.ret = "false"

\* C5: where(condition, x, y) selects the backend from (x, y) when some
\* backend is applicable to them and from the condition otherwise; gather
\* and gather_nd select from values alone, sparse_tensor from
\* (indices, values).
C5_PayloadKey ==
    /\ call.op = "where" =>
          LET xy == <<call.args[2], call.args[3]>>
              cond == <<call.args[1]>>
          IN  IF ApplicableTo(xy) # {}
              THEN IsLeast(call.sel, ApplicableTo(xy))
              ELSE \/ ApplicableTo(cond) = {} /\ call.sel = 0
                   \/ IsLeast(call.sel, ApplicableTo(cond))
    /\ call.op \in GatherOps =>
          \/ ApplicableTo(<<call.args[1]>>) = {} /\ call.sel = 0
          \/ IsLeast(call.sel, ApplicableTo(<<call.args[1]>>))
    /\ call.op = "sparse_tensor" =>
          \/ ApplicableTo(<<call.args[1], call.args[2]>>) = {} /\ call.sel = 0
          \/ IsLeast(call.sel, ApplicableTo(<<call.args[1], call.args[2]>>))

(***************************************************************************)
(* Properties of the field algebra (checked under SpecField)               *)
(***************************************************************************)
FlagById(id) == CHOOSE fl \in FlagPool : fl.id = id

HasFlag(f, fl) == ~f.flagsNone /\ fl \in BagToSet(f.flags)

WellFlagged(f) ==
    \/ f.flagsNone
    \/ \A fl \in BagToSet(f.flags) :
          /\ CopiesIn(fl, f.flags) = 1
          /\ flag_is_applicable(fl, f.rank, f.component_count)

\* C6: every field that exists, operand or result of at, broadcast_at or an
\* arithmetic operator, holds each of its flags once and only flags
\* applicable to its (rank, component_count); constructing a field with an
\* inapplicable flag raises and yields no field.
C6_FlagsValid ==
    /\ WellFlagged(field)
    /\ WellFlagged(other)
    /\ WellFlagged(fop.result)
    /\ (/\ fop.op = "construct"
        /\ \E fl \in FlagPool :
              /\ HasFlag(fop.raw, fl)
              /\ ~flag_is_applicable(fl, fop.raw.rank, fop.raw.component_count))
       => fop.outcome = "ValueError" /\ fop.result = NoField

\* a field was constructed from a tuple naming one flag twice
C6_Witness ==
    /\ fop.op = "construct"
    /\ fop.outcome = "ok"
    /\ BagCardinality(fop.raw.flags) = 2
    /\ BagCardinality(fop.result.flags) = 1

\* C7: the flags of field.at(other) are the data-bound flags of field and
\* the structure-bound flags of other that propagate under RESAMPLE and are
\* applicable at the rank of the result, with the components of field.
C7_ResampleSplit ==
    (fop.op = "at" /\ fop.outcome = "ok") =>
        /\ ~fop.result.flagsNone
        /\ BagToSet(fop.result.flags) =
              {fl \in BagToSet(field.flags) :
                  /\ fl.is_data_bound
                  /\ RESAMPLE \in fl.propagators
                  /\ flag_is_applicable(fl, fop.result.rank,
                                        field.component_count)}
              \cup
              {fl \in BagToSet(other.flags) :
                  /\ fl.is_structure_bound
                  /\ RESAMPLE \in fl.propagators
                  /\ flag_is_applicable(fl, fop.result.rank,
                                        field.component_count)}

\* a structure-bound flag of the destination alone and a data-bound flag of
\* the source alone survived; a flag with neither binding did not
C7_Witness ==
    /\ fop.op = "at"
    /\ fop.outcome = "ok"
    /\ HasFlag(fop.result, FlagById(2))
    /\ ~HasFlag(field, FlagById(2))
    /\ HasFlag(fop.result, FlagById(1))
    /\ ~HasFlag(other, FlagById(1))
    /\ HasFlag(field, FlagById(4))
    /\ ~HasFlag(fop.result, FlagById(4))

LinearOnly(fl) ==
    /\ fl.is_data_bound
    /\ LINEAR_OPERATIONS \in fl.propagators
    /\ ALL_OPERATIONS \notin fl.propagators

\* C8: a data-bound flag of a field that propagates under LINEAR_OPERATIONS
\* but not under ALL_OPERATIONS is on the result of multiplying the field
\* with a scalar, from either side, and on no result of adding a scalar,
\* subtracting a scalar or subtracting from a scalar; no such flag of
\* either operand is on the result of combining two fields.
C8_LinearOnlyFlag ==
    /\ (fop.op \in DataOps /\ fop.scalar) =>
          \A fl \in FlagPool :
              (/\ LinearOnly(fl)
               /\ HasFlag(field, fl)
               /\ flag_is_applicable(fl, field.rank, field.component_count))
              => /\ fop.outcome = "ok"
                 /\ fop.op \in {"__mul__", "__rmul__"}
                        => HasFlag(fop.result, fl)
                 /\ fop.op \in {"__add__", "__radd__", "__sub__", "__rsub__"}
                        => ~HasFlag(fop.result, fl)
    /\ (fop.op \in DataOps /\ ~fop.scalar /\ fop.outcome = "ok") =>
          \A fl \in FlagPool : LinearOnly(fl) => ~HasFlag(fop.result, fl)

\* a scalar was multiplied with a field holding such a flag
C8_Witness ==
    /\ fop.op = "__rmul__"
    /\ fop.scalar
    /\ fop.outcome = "ok"
    /\ HasFlag(field, FlagById(1))
    /\ HasFlag(fop.result, FlagById(1))

\* C9: combining two fields that are not compatible raises
\* IncompatibleFieldTypes and yields no field.
C9_IncompatibleFails ==
    (fop.op \in DataOps /\ ~fop.scalar /\ ~compatible(field, other)) =>
        fop.outcome = "IncompatibleFieldTypes" /\ fop.result = NoField

\* C10: broadcast_at(f1, f2) raises IncompatibleFieldTypes exactly when the
\* component counts differ and f1 has more than one component; otherwise it
\* returns a copy of f2 with one component per component of f2.  Stated for
\* fields holding flag tuples and an f2 sampled at per-component locations.
C10_BroadcastAt ==
    (/\ fop.op = "broadcast_at"
     /\ ~field.flagsNone
     /\ ~other.flagsNone
     /\ other.points = "staggered") =>
        IF /\ field.component_count # other.component_count
           /\ field.component_count # 1
        THEN fop.outcome = "IncompatibleFieldTypes" /\ fop.result = NoField
        ELSE /\ fop.outcome = "ok"
             /\ fop.result.component_count = other.component_count
             /\ fop.result.rank = other.rank
             /\ fop.result.points = other.points

====
